---- MODULE Spec2Model ----
(***************************************************************************)
(* The request / pagination / batching layer of the Alpaca MCP server      *)
(* (src/index.js, the TypeScript source at lines 146-307): the request     *)
(* helper, getBatches and the four fetchers getAssets, getStockBars,       *)
(* getMarketDays and getNews.                                              *)
(*                                                                         *)
(* One behaviour is one fetcher invocation.  A fetcher runs synchronously  *)
(* up to its next `await`, so the actions are the invocation (up to the    *)
(* first fetch or the early return) and the settling of the fetch in       *)
(* flight (the response is read, merged, and the next fetch is issued or   *)
(* the envelope returned).                                                 *)
(*                                                                         *)
(* JavaScript values are written as strings: "undefined", "null", "true",  *)
(* "false" stand for the values of those names, "" is the empty string,    *)
(* any other string is itself.                                             *)
(***************************************************************************)
EXTENDS Integers, Sequences, FiniteSets, TLC

VARIABLES
    env,        \* process.env: the two credentials
    tool,       \* the fetcher invoked, "none" before the invocation
    symbols,    \* the symbols argument (getStockBars, getNews)
    pc,         \* "idle", "awaiting" (a fetch is in flight), "done"
    batches,    \* getStockBars: getBatches(symbols, 2000)
    batchIdx,   \* getStockBars: position of the for-of loop over batches
    pageToken,  \* getStockBars, getNews: the local pageToken
    result,     \* getStockBars: result.bars; getNews: all
    calls,      \* every fetch(url, {method, headers}) issued, in order
    pages,      \* every body request() returned to the fetcher, in order
    thrown,     \* the messages of the errors thrown inside the try block
    inFlight,   \* number of fetch calls issued and not yet settled
    outcome,    \* "pending", "returned", "raised"
    envelope,   \* the value the fetcher returned
    arr,        \* getBatches called directly: its array argument
    size,       \* getBatches called directly: its size argument
    out         \* getBatches called directly: <<"none">> or <<"ok", batches>>

vars == <<env, tool, symbols, pc, batches, batchIdx, pageToken, result, calls,
          pages, thrown, inFlight, outcome, envelope, arr, size, out>>

fetcherVars == <<env, tool, symbols, pc, batches, batchIdx, pageToken, result,
                 calls, pages, thrown, inFlight, outcome, envelope>>

(***************************************************************************)
(* Bounds of the model.                                                    *)
(***************************************************************************)
MaxSymbols == 3     \* longest symbols argument
BatchSize == 2      \* the batch size of getStockBars, scaled down from 2000
MaxAssets == 2      \* longest asset array upstream returns
MaxLen == 4         \* getBatches called directly: longest array
MaxSize == 3        \* getBatches called directly: largest size

Symbols == {"A", "B"}
Items == {1, 2, 3}

RECURSIVE SeqsUpTo(_, _)
SeqsUpTo(S, n) ==
    IF n = 0 THEN {<<>>}
    ELSE LET shorter == SeqsUpTo(S, n - 1)
         IN  shorter \cup {Append(s, x) : s \in {t \in shorter : Len(t) = n - 1}, x \in S}

(***************************************************************************)
(* JavaScript helpers.                                                     *)
(***************************************************************************)
Undefined == "undefined"
Null == "null"

\* ToBoolean: what `!x`, `if (x)`, `x ? a : b`, `while (x)` and filter test.
Truthy(v) == v \notin {"undefined", "null", "false", "", "0"}

\* Array.prototype.join(",")
RECURSIVE Join(_)
Join(s) ==
    IF s = <<>> THEN ""
    ELSE IF Len(s) = 1 THEN s[1]
    ELSE s[1] \o "," \o Join(Tail(s))

\* Array.prototype.slice(from, to) with 0-based from (inclusive), to (exclusive)
Slice(a, from, to) ==
    LET hi == IF to > Len(a) THEN Len(a) ELSE to
    IN  IF from >= hi THEN <<>> ELSE [k \in 1..(hi - from) |-> a[from + k]]

\* JSON.stringify(v): the text is kept as the value it encodes.
JSONstringify(v) == [json |-> v]

(***************************************************************************)
(* getBatches                                                              *)
(***************************************************************************)
RECURSIVE BatchesFullOnly(_, _, _, _)
\* the loop stopping at the last full batch: i + size <= arr.length
BatchesFullOnly(a, sz, i, acc) ==
    IF i + sz <= Len(a) THEN BatchesFullOnly(a, sz, i + sz, Append(acc, Slice(a, i, i + sz)))
    ELSE acc

RECURSIVE BatchesOverlapping(_, _, _, _)
\* the loop slicing one element too many: arr.slice(i, i + size + 1)
BatchesOverlapping(a, sz, i, acc) ==
    IF i < Len(a)
    THEN BatchesOverlapping(a, sz, i + sz, Append(acc, Slice(a, i, i + sz + 1)))
    ELSE acc

RECURSIVE BatchesFrom(_, _, _, _)
\* the for loop: for (let i = ...; i < arr.length; i += size) batches.push(arr.slice(i, i + size))
BatchesFrom(a, sz, i, acc) ==
    IF i < Len(a) THEN BatchesFrom(a, sz, i + sz, Append(acc, Slice(a, i, i + sz)))
    ELSE acc

\* an empty array giving one empty batch, as "".split(",") gives one empty string
getBatchesAtLeastOne(a, sz) ==
    IF a = <<>> THEN <<<<>>>> ELSE BatchesFrom(a, sz, 0, <<>>)

getBatches(a, sz) == BatchesFrom(a, sz, 0, <<>>)

(***************************************************************************)
(* request                                                                 *)
(***************************************************************************)
CredVals == {Undefined, "", "key"}

CredentialsError == "Alpaca credentials not configured. Set ALPACA_API_KEY and ALPACA_SECRET_KEY."
JsonParseError == "Unexpected token < in JSON at position 0"
TransportError == "request to upstream failed, reason: connect ECONNREFUSED"

\* the guard testing the key alone
CredentialsKeyOnly(e) == Truthy(e.ALPACA_API_KEY)

\* the negation of `!process.env.ALPACA_API_KEY || !process.env.ALPACA_SECRET_KEY`
CredentialsConfigured(e) == Truthy(e.ALPACA_API_KEY) /\ Truthy(e.ALPACA_SECRET_KEY)

\* the arguments of fetch(url, { method, headers })
FetchCall(e, base, path, params) ==
    [ base    |-> base,
      path    |-> path,
      params  |-> params,
      method  |-> "GET",
      headers |-> [ APCA_API_KEY_ID     |-> e.ALPACA_API_KEY,
                    APCA_API_SECRET_KEY |-> e.ALPACA_SECRET_KEY ] ]

\* What upstream can answer that makes request() throw.
FailureResponses ==
    { [kind |-> "reject", message |-> TransportError],
      [kind |-> "response", ok |-> FALSE, status |-> "500", statusText |-> "Error",
       parsable |-> TRUE, body |-> [shape |-> "error", text |-> "{\"message\":\"fail\"}"]],
      [kind |-> "response", ok |-> FALSE, status |-> "404", statusText |-> "Not Found",
       parsable |-> FALSE, body |-> [shape |-> "error", text |-> "<html>"]],
      [kind |-> "response", ok |-> TRUE, status |-> "200", statusText |-> "OK",
       parsable |-> FALSE, body |-> [shape |-> "error", text |-> "<html>"]] }

OkResponse(body) ==
    [kind |-> "response", ok |-> TRUE, status |-> "200", statusText |-> "OK",
     parsable |-> TRUE, body |-> body]

\* request() from the settling of its fetch to its return or throw
RequestOutcome(resp) ==
    IF resp.kind = "reject"
    THEN [threw |-> TRUE, message |-> resp.message]
    ELSE IF ~resp.ok
    THEN IF resp.parsable
         THEN [threw |-> TRUE,
               message |-> resp.status \o " " \o resp.statusText \o " - " \o resp.body.text]
         ELSE [threw |-> TRUE, message |-> JsonParseError]
    ELSE IF resp.parsable
         THEN [threw |-> FALSE, value |-> resp.body]
         ELSE [threw |-> TRUE, message |-> JsonParseError]

(***************************************************************************)
(* The result envelope                                                     *)
(***************************************************************************)
NoEnvelope == [content |-> <<>>]

ErrorPrefix(t) ==
    CASE t = "getAssets"     -> "Error fetching assets: "
      [] t = "getStockBars"  -> "Error fetching stock bars: "
      [] t = "getMarketDays" -> "Error fetching market days: "
      [] t = "getNews"       -> "Error fetching news: "

\* { content: [{ type: "text", text: JSON.stringify(v) }] }
SuccessEnvelope(v) == [content |-> <<[type |-> "text", text |-> JSONstringify(v)]>>]

\* the catch clause putting what was accumulated beside the message
ErrorEnvelopeWithPartial(s, message) ==
    [content |-> <<[type |-> "text",
                    text |-> [message |-> ErrorPrefix(s.tool) \o message,
                              json |-> [bars |-> s.result]]]>>,
     isError |-> TRUE]

\* { content: [{ type: "text", text: `Error fetching ...: ${err.message}` }], isError: true }
ErrorEnvelope(s, message) ==
    [content |-> <<[type |-> "text", text |-> [message |-> ErrorPrefix(s.tool) \o message]]>>,
     isError |-> TRUE]

IsError(e) == "isError" \in DOMAIN e /\ e.isError = TRUE

(***************************************************************************)
(* The state of one invocation as a record, and the steps of a fetcher as  *)
(* functions on it.                                                        *)
(***************************************************************************)
Cur ==
    [ tool |-> tool, symbols |-> symbols, pc |-> pc, batches |-> batches,
      batchIdx |-> batchIdx, pageToken |-> pageToken, result |-> result,
      calls |-> calls, pages |-> pages, thrown |-> thrown, inFlight |-> inFlight,
      outcome |-> outcome, envelope |-> envelope ]

Apply(s) ==
    /\ tool' = s.tool
    /\ symbols' = s.symbols
    /\ pc' = s.pc
    /\ batches' = s.batches
    /\ batchIdx' = s.batchIdx
    /\ pageToken' = s.pageToken
    /\ result' = s.result
    /\ calls' = s.calls
    /\ pages' = s.pages
    /\ thrown' = s.thrown
    /\ inFlight' = s.inFlight
    /\ outcome' = s.outcome
    /\ envelope' = s.envelope

\* `return envelope` inside the try block
Returned(s, e) == [s EXCEPT !.pc = "done", !.outcome = "returned", !.envelope = e]

\* an error thrown outside any try block: it leaves the fetcher
ThrewUncaught(s, message) ==
    [s EXCEPT !.pc = "done", !.thrown = Append(@, message), !.outcome = "raised"]

\* an error thrown inside the try block: the catch clause returns the error envelope
Threw(s, message) ==
    [s EXCEPT !.pc = "done",
              !.thrown = Append(@, message),
              !.outcome = "returned",
              !.envelope = ErrorEnvelope(s, message)]

\* request() with the credentials read once and kept: after the first fetch
\* the headers of that fetch are sent again, and process.env is not looked at
requestCachedCredentials(s, e, base, path, params) ==
    IF s.calls # <<>>
    THEN [s EXCEPT !.pc = "awaiting",
                   !.calls = Append(@, [FetchCall(e, base, path, params) EXCEPT
                                            !.headers = s.calls[1].headers]),
                   !.inFlight = @ + 1]
    ELSE IF ~CredentialsConfigured(e)
    THEN Threw(s, CredentialsError)
    ELSE [s EXCEPT !.pc = "awaiting",
                   !.calls = Append(@, FetchCall(e, base, path, params)),
                   !.inFlight = @ + 1]

\* `await request({ base, path, params })` up to its `await fetch(...)`
request(s, e, base, path, params) ==
    IF ~CredentialsConfigured(e)
    THEN Threw(s, CredentialsError)
    ELSE [s EXCEPT !.pc = "awaiting",
                   !.calls = Append(@, FetchCall(e, base, path, params)),
                   !.inFlight = @ + 1]

\* request() returned body to the fetcher
Received(s, body) == [s EXCEPT !.pages = Append(@, body)]

(***************************************************************************)
(* What upstream can answer                                                *)
(***************************************************************************)
ContinuationTokens == {"t1", "t2"}

\* the tokens upstream has already handed out in this invocation
UsedTokens(s) ==
    {s.pages[i].next_page_token :
        i \in {j \in 1..Len(s.pages) : s.pages[j].shape = "object"}}

\* a page ends the pagination (no token, null, or an empty one) or carries a
\* token upstream has not handed out before
TokenChoices(s) == {Undefined, Null, ""} \cup (ContinuationTokens \ UsedTokens(s))

\* an asset record: tradable is a boolean, or the attribute is left out
AssetRecords == [symbol : Symbols, tradable : {"true", "false", "undefined"}]

\* the array of records, or a body that is no array (data.filter is no function)
AssetBodies ==
    {[shape |-> "array", items |-> a] : a \in SeqsUpTo(AssetRecords, MaxAssets)}
        \cup {[shape |-> "object"]}

\* the array of days, or any other body: getMarketDays passes both through
DayBodies ==
    {[shape |-> "array", items |-> d] :
        d \in {<<>>, <<"2021-01-01">>, <<"2021-01-01", "2021-01-02">>}}
        \cup {[shape |-> "object"]}

Range(f) == {f[i] : i \in DOMAIN f}

\* bars of the symbols asked for; the bars of the n-th page are written <<n>>.
\* A body without bars is read like one with bars {}: Object.assign ignores an
\* undefined source.  The body null makes `resp.bars` throw.
BarsBodies(s) ==
    {[shape |-> "object",
      bars |-> [k \in K |-> <<Len(s.calls)>>],
      next_page_token |-> t] :
        K \in SUBSET Range(s.batches[s.batchIdx]), t \in TokenChoices(s)}
        \cup {[shape |-> "null"]}

NewsArrays == {<<>>, <<"n1">>, <<"n2", "n1">>}

\* a page of news; the body null makes `resp.news` throw
NewsBodies(s) ==
    {[shape |-> "object", news |-> n, next_page_token |-> t] :
        n \in NewsArrays, t \in TokenChoices(s)}
        \cup {[shape |-> "null"]}

Responses(bodies) == FailureResponses \cup {OkResponse(b) : b \in bodies}

(***************************************************************************)
(* getAssets                                                               *)
(***************************************************************************)
\* the filter dropping only the records marked not tradable: a.tradable !== false
FilterNotFalse(items) == SelectSeq(items, LAMBDA a : a.tradable # "false")

\* data.filter((a) => a.tradable)
FilterTradable(items) == SelectSeq(items, LAMBDA a : Truthy(a.tradable))

getAssetsStart(s, e, assetClass) ==
    request(s, e, "ALPACA_BROKER_ENDPOINT", "/v1/assets",
            [status |-> "active", asset_class |-> assetClass])

getAssetsResume(s, e, r) ==
    IF r.threw THEN Threw(s, r.message)
    ELSE IF r.value.shape # "array"
    THEN Threw(Received(s, r.value), "data.filter is not a function")
    ELSE Returned(Received(s, r.value), SuccessEnvelope(FilterTradable(r.value.items)))

(***************************************************************************)
(* getMarketDays                                                           *)
(***************************************************************************)
StartArg == "2021-01-01"
EndArg == "2021-01-02"
TimeframeArg == "1Day"

getMarketDaysStart(s, e) ==
    request(s, e, "ALPACA_ENDPOINT", "/v2/calendar", [start |-> StartArg, end |-> EndArg])

getMarketDaysResume(s, e, r) ==
    IF r.threw THEN Threw(s, r.message)
    ELSE Returned(Received(s, r.value), SuccessEnvelope(r.value))

(***************************************************************************)
(* getStockBars                                                            *)
(***************************************************************************)
EmptyMap == [k \in {} |-> <<>>]

\* a merge that appends a symbol's bars to the ones already there
ObjectAssignCombine(target, source) ==
    [k \in DOMAIN target \cup DOMAIN source |->
        IF k \in DOMAIN source
        THEN IF k \in DOMAIN target THEN target[k] \o source[k] ELSE source[k]
        ELSE target[k]]

\* Object.assign(target, source)
ObjectAssign(target, source) ==
    [k \in DOMAIN target \cup DOMAIN source |->
        IF k \in DOMAIN source THEN source[k] ELSE target[k]]

\* params[name] = value
WithParam(params, name, value) ==
    [k \in DOMAIN params \cup {name} |-> IF k = name THEN value ELSE params[k]]

\* const params = { timeframe, limit: 10000, start, end, symbols: batch.join(",") };
\* if (pageToken) params.page_token = pageToken;
BarsParams(batch, tok) ==
    LET params == [timeframe |-> TimeframeArg, limit |-> "10000", start |-> StartArg,
                   end |-> EndArg, symbols |-> Join(batch)]
    IN  IF Truthy(tok) THEN WithParam(params, "page_token", tok) ELSE params

\* the batch the for-of loop is at
CurrentBatch(s) == s.batches[s.batchIdx]

\* the body of the do-while loop up to the fetch
getStockBarsPage(s, e) ==
    request(s, e, "ALPACA_ENDPOINT", "/v2/stocks/bars", BarsParams(CurrentBatch(s), s.pageToken))

\* the head of the for-of loop: the next batch with a fresh pageToken, or the return
getStockBarsNextBatch(s, e) ==
    IF s.batchIdx < Len(s.batches)
    THEN getStockBarsPage([s EXCEPT !.batchIdx = @ + 1, !.pageToken = Undefined], e)
    ELSE Returned(s, SuccessEnvelope([bars |-> s.result]))

\* the first request of every batch issued at once, as Promise.all over the batches would
getStockBarsAllAtOnce(s, e) ==
    LET bs == getBatches(s.symbols, BatchSize)
        s0 == [s EXCEPT !.result = EmptyMap, !.batches = bs, !.batchIdx = 0]
    IN  IF bs = <<>> THEN Returned(s0, SuccessEnvelope([bars |-> s0.result]))
        ELSE IF ~CredentialsConfigured(e) THEN Threw(s0, CredentialsError)
        ELSE [s0 EXCEPT !.pc = "awaiting",
                        !.batchIdx = 1,
                        !.pageToken = Undefined,
                        !.calls = [i \in 1..Len(bs) |->
                                     FetchCall(e, "ALPACA_ENDPOINT", "/v2/stocks/bars",
                                               BarsParams(bs[i], Undefined))],
                        !.inFlight = Len(bs)]

getStockBarsStart(s, e) ==
    getStockBarsNextBatch(
        [s EXCEPT !.result = EmptyMap, !.batches = getBatches(s.symbols, BatchSize),
                  !.batchIdx = 0], e)

\* the loop going on unless the token is absent: while (pageToken !== undefined)
LoopUnlessUndefined(tok) == tok # Undefined

\* } while (pageToken);
LoopAgain(tok) == Truthy(tok)

getStockBarsResume(s, e, r) ==
    IF r.threw THEN Threw(s, r.message)
    ELSE IF r.value.shape # "object"
    THEN Threw(Received(s, r.value), "Cannot read properties of null (reading 'bars')")
    ELSE LET s1 == [Received(s, r.value) EXCEPT
                        !.result = ObjectAssign(@, r.value.bars),
                        !.pageToken = r.value.next_page_token]
         IN  IF LoopAgain(s1.pageToken)
             THEN getStockBarsPage(s1, e)
             ELSE getStockBarsNextBatch(s1, e)

(***************************************************************************)
(* getNews                                                                 *)
(***************************************************************************)
\* the continuation request keeping the filters of the first request
NewsParamsKeepFilters(syms, tok) ==
    LET params == [sort |-> "desc", start |-> StartArg, end |-> EndArg,
                   symbols |-> Join(syms), include_content |-> "true"]
    IN  IF Truthy(tok) THEN WithParam(params, "page_token", tok) ELSE params

\* pageToken ? { page_token: pageToken }
\*           : { sort: "desc", start, end, symbols: symbols.join(","), include_content: true }
NewsParams(syms, tok) ==
    IF Truthy(tok)
    THEN [page_token |-> tok]
    ELSE [sort |-> "desc", start |-> StartArg, end |-> EndArg, symbols |-> Join(syms),
          include_content |-> "true"]

\* all.unshift(...resp.news)
UnshiftAll(all, news) == news \o all

\* all.push(...resp.news)
PushAll(all, news) == all \o news

getNewsPage(s, e) ==
    request(s, e, "ALPACA_ENDPOINT", "/v1beta1/news", NewsParams(s.symbols, s.pageToken))

getNewsStart(s, e) == getNewsPage([s EXCEPT !.result = <<>>, !.pageToken = Undefined], e)

\* the loop asking once more for a page whose request failed
getNewsResumeRetry(s, e, r) ==
    IF r.threw
    THEN IF Len(s.calls) = Len(s.pages) + 1 THEN getNewsPage(s, e) ELSE Threw(s, r.message)
    ELSE IF r.value.shape # "object"
    THEN Threw(Received(s, r.value), "Cannot read properties of null (reading 'news')")
    ELSE LET s1 == [Received(s, r.value) EXCEPT
                        !.result = PushAll(@, r.value.news),
                        !.pageToken = r.value.next_page_token]
         IN  IF LoopAgain(s1.pageToken)
             THEN getNewsPage(s1, e)
             ELSE Returned(s1, SuccessEnvelope(s1.result))

getNewsResume(s, e, r) ==
    IF r.threw THEN Threw(s, r.message)
    ELSE IF r.value.shape # "object"
    THEN Threw(Received(s, r.value), "Cannot read properties of null (reading 'news')")
    ELSE LET s1 == [Received(s, r.value) EXCEPT
                        !.result = PushAll(@, r.value.news),
                        !.pageToken = r.value.next_page_token]
         IN  IF LoopAgain(s1.pageToken)
             THEN getNewsPage(s1, e)
             ELSE Returned(s1, SuccessEnvelope(s1.result))

(***************************************************************************)
(* Actions                                                                 *)
(***************************************************************************)
SymbolLists == SeqsUpTo(Symbols, MaxSymbols)

\* the fetch in flight has settled: the fetcher runs on from its await
Settled == [Cur EXCEPT !.inFlight = @ - 1]

InvokeGetAssets ==
    /\ pc = "idle"
    /\ \E assetClass \in {"us_equity", "crypto"} :
         Apply(getAssetsStart([Cur EXCEPT !.tool = "getAssets"], env, assetClass))
    /\ UNCHANGED <<env, arr, size, out>>

SettleGetAssets ==
    /\ pc = "awaiting" /\ tool = "getAssets"
    /\ \E resp \in Responses(AssetBodies) :
         Apply(getAssetsResume(Settled, env, RequestOutcome(resp)))
    /\ UNCHANGED <<env, arr, size, out>>

InvokeGetMarketDays ==
    /\ pc = "idle"
    /\ Apply(getMarketDaysStart([Cur EXCEPT !.tool = "getMarketDays"], env))
    /\ UNCHANGED <<env, arr, size, out>>

SettleGetMarketDays ==
    /\ pc = "awaiting" /\ tool = "getMarketDays"
    /\ \E resp \in Responses(DayBodies) :
         Apply(getMarketDaysResume(Settled, env, RequestOutcome(resp)))
    /\ UNCHANGED <<env, arr, size, out>>

InvokeGetStockBars ==
    /\ pc = "idle"
    /\ \E syms \in SymbolLists :
         Apply(getStockBarsStart([Cur EXCEPT !.tool = "getStockBars", !.symbols = syms], env))
    /\ UNCHANGED <<env, arr, size, out>>

SettleGetStockBars ==
    /\ pc = "awaiting" /\ tool = "getStockBars"
    /\ \E resp \in Responses(BarsBodies(Cur)) :
         Apply(getStockBarsResume(Settled, env, RequestOutcome(resp)))
    /\ UNCHANGED <<env, arr, size, out>>

InvokeGetNews ==
    /\ pc = "idle"
    /\ \E syms \in SymbolLists :
         Apply(getNewsStart([Cur EXCEPT !.tool = "getNews", !.symbols = syms], env))
    /\ UNCHANGED <<env, arr, size, out>>

SettleGetNews ==
    /\ pc = "awaiting" /\ tool = "getNews"
    /\ \E resp \in Responses(NewsBodies(Cur)) :
         Apply(getNewsResume(Settled, env, RequestOutcome(resp)))
    /\ UNCHANGED <<env, arr, size, out>>

\* getStockBars on symbol lists over four symbols, so that a list of distinct
\* symbols fills more than one batch.  The code never looks into a symbol, so
\* the lists are taken up to renaming: the first symbol is "A".
WideSymbols == {"A", "B", "C", "D"}

WideSymbolLists == {s \in SeqsUpTo(WideSymbols, MaxSymbols) : s = <<>> \/ s[1] = "A"}

InvokeGetStockBarsWide ==
    /\ pc = "idle"
    /\ \E syms \in WideSymbolLists :
         Apply(getStockBarsStart([Cur EXCEPT !.tool = "getStockBars", !.symbols = syms], env))
    /\ UNCHANGED <<env, arr, size, out>>

\* getBatches called directly
CallGetBatches ==
    /\ ~out.done
    /\ out' = [done |-> TRUE, batches |-> getBatches(arr, size)]
    /\ UNCHANGED <<fetcherVars, arr, size>>

Idle ==
    /\ tool = "none" /\ symbols = <<>> /\ pc = "idle" /\ batches = <<>>
    /\ batchIdx = 0 /\ pageToken = Undefined /\ result = <<>>
    /\ calls = <<>> /\ pages = <<>> /\ thrown = <<>> /\ inFlight = 0
    /\ outcome = "pending" /\ envelope = NoEnvelope

Init ==
    /\ env \in [ALPACA_API_KEY : CredVals, ALPACA_SECRET_KEY : CredVals]
    /\ Idle
    /\ arr = <<>> /\ size = 1 /\ out = [done |-> TRUE, batches |-> <<>>]

Next ==
    \/ InvokeGetAssets
    \/ SettleGetAssets
    \/ InvokeGetMarketDays
    \/ SettleGetMarketDays
    \/ InvokeGetStockBars
    \/ SettleGetStockBars
    \/ InvokeGetNews
    \/ SettleGetNews

Spec == Init /\ [][Next]_vars

\* The fetchers with every fetch settling: node-fetch resolves or rejects each
\* call, and the await then resumes the fetcher.
SpecLive ==
    /\ Init
    /\ [][Next]_vars
    /\ WF_vars(SettleGetAssets)
    /\ WF_vars(SettleGetMarketDays)
    /\ WF_vars(SettleGetStockBars)
    /\ WF_vars(SettleGetNews)

\* process.env changed while a fetch is in flight: a credential is deleted, or
\* set to another value
EnvCredVals == {Undefined, "key", "key2"}

ChangeEnv ==
    /\ pc = "awaiting"
    /\ \E name \in {"ALPACA_API_KEY", "ALPACA_SECRET_KEY"} :
         \E v \in EnvCredVals \ {env[name]} :
            env' = [env EXCEPT ![name] = v]
    /\ UNCHANGED <<tool, symbols, pc, batches, batchIdx, pageToken, result, calls,
                   pages, thrown, inFlight, outcome, envelope, arr, size, out>>

\* one symbol list that fits one batch and one that needs two
EnvSymbolLists ==
    {[i \in 1..n |-> IF i % 2 = 1 THEN "A" ELSE "B"] : n \in {1, MaxSymbols}}

InvokeGetStockBarsEnv ==
    /\ pc = "idle"
    /\ \E syms \in EnvSymbolLists :
         Apply(getStockBarsStart([Cur EXCEPT !.tool = "getStockBars", !.symbols = syms], env))
    /\ UNCHANGED <<env, arr, size, out>>

InvokeGetNewsEnv ==
    /\ pc = "idle"
    /\ \E syms \in EnvSymbolLists :
         Apply(getNewsStart([Cur EXCEPT !.tool = "getNews", !.symbols = syms], env))
    /\ UNCHANGED <<env, arr, size, out>>

\* upstream answering every fetch with a page, which carries a continuation
\* token or none
PagesOnly(bodies) ==
    {OkResponse(b) : b \in {c \in bodies : c.shape = "object" /\ c.next_page_token \notin {Null, ""}}}

SettleGetStockBarsPage ==
    /\ pc = "awaiting" /\ tool = "getStockBars"
    /\ \E resp \in PagesOnly(BarsBodies(Cur)) :
         Apply(getStockBarsResume(Settled, env, RequestOutcome(resp)))
    /\ UNCHANGED <<env, arr, size, out>>

SettleGetNewsPage ==
    /\ pc = "awaiting" /\ tool = "getNews"
    /\ \E resp \in PagesOnly(NewsBodies(Cur)) :
         Apply(getNewsResume(Settled, env, RequestOutcome(resp)))
    /\ UNCHANGED <<env, arr, size, out>>

\* the paginating fetchers, started with both credentials configured, with
\* process.env changing under them
InitEnv ==
    /\ env = [ALPACA_API_KEY |-> "key", ALPACA_SECRET_KEY |-> "key"]
    /\ Idle
    /\ arr = <<>> /\ size = 1 /\ out = [done |-> TRUE, batches |-> <<>>]

NextEnv ==
    \/ InvokeGetStockBarsEnv
    \/ SettleGetStockBarsPage
    \/ InvokeGetNewsEnv
    \/ SettleGetNewsPage
    \/ ChangeEnv

SpecEnv == InitEnv /\ [][NextEnv]_vars

\* getStockBars alone, with the credentials configured
InitBars ==
    /\ env = [ALPACA_API_KEY |-> "key", ALPACA_SECRET_KEY |-> "key"]
    /\ Idle
    /\ arr = <<>> /\ size = 1 /\ out = [done |-> TRUE, batches |-> <<>>]

NextBars ==
    \/ InvokeGetStockBarsWide
    \/ SettleGetStockBars

SpecBars == InitBars /\ [][NextBars]_vars

\* getBatches alone, on every array over Items up to MaxLen and every size up to MaxSize
InitBatches ==
    /\ env = [ALPACA_API_KEY |-> "key", ALPACA_SECRET_KEY |-> "key"]
    /\ Idle
    /\ arr \in SeqsUpTo(Items, MaxLen)
    /\ size \in 1..MaxSize
    /\ out = [done |-> FALSE, batches |-> <<>>]

NextBatches == CallGetBatches

SpecBatches == InitBatches /\ [][NextBatches]_vars

(***************************************************************************)
(* Properties                                                              *)
(***************************************************************************)
RECURSIVE Concat(_)
\* the in-order concatenation of a sequence of sequences
Concat(ss) == IF ss = <<>> THEN <<>> ELSE Head(ss) \o Concat(Tail(ss))

Succeeded == pc = "done" /\ outcome = "returned" /\ thrown = <<>>

\* the payload of a success envelope
Payload == envelope.content[1].text.json

\* C1: for every array and every positive size S, the batches getBatches
\* returns concatenate in order to the array, every batch but the last has
\* length S, the last batch (as every batch) is non-empty and no longer than
\* S, and the empty array gives no batch.
C1_BatchesPartition ==
    out.done =>
        LET bs == out.batches
        IN  /\ Concat(bs) = arr
            /\ \A i \in 1..Len(bs) - 1 : Len(bs[i]) = size
            /\ \A i \in 1..Len(bs) : Len(bs[i]) >= 1 /\ Len(bs[i]) <= size
            /\ (arr = <<>> => bs = <<>>)

\* getBatches has returned several batches, the last one shorter than the size
C1_Witness ==
    /\ out.done
    /\ Len(out.batches) >= 2
    /\ Len(out.batches[Len(out.batches)]) < size

\* C2: no fetcher invocation ends with a raised exception, whatever its
\* requests met (credentials missing, a non-success status, a transport
\* failure, an unparsable body, a body of an unexpected shape): it returns an
\* envelope with exactly one text content item, whose isError is true exactly
\* when something was thrown during the invocation.
C2_ErrorsBecomeEnvelopes ==
    /\ outcome # "raised"
    /\ pc = "done" =>
        /\ outcome = "returned"
        /\ Len(envelope.content) = 1
        /\ envelope.content[1].type = "text"
        /\ DOMAIN envelope.content[1] = {"type", "text"}
        /\ IsError(envelope) <=> thrown # <<>>
    /\ pc # "done" => outcome = "pending" /\ thrown = <<>>

\* a fetcher that had already received a page met a failure that is not the
\* missing credentials, and returned the error envelope
C2_Witness ==
    /\ pc = "done"
    /\ outcome = "returned"
    /\ IsError(envelope)
    /\ pages # <<>>
    /\ thrown # <<>>
    /\ thrown[1] # CredentialsError

\* C3: a request made while either credential is absent or empty throws the
\* fixed credentials error without a fetch call having been issued; every
\* fetch call was issued with both credentials present and non-empty.
C3_CredentialsFailFast ==
    /\ \A i \in 1..Len(calls) :
         /\ calls[i].headers.APCA_API_KEY_ID \notin {Undefined, ""}
         /\ calls[i].headers.APCA_API_SECRET_KEY \notin {Undefined, ""}
    /\ ( /\ env.ALPACA_API_KEY \in {Undefined, ""} \/ env.ALPACA_SECRET_KEY \in {Undefined, ""}
         /\ pc # "idle"
         /\ ~(tool = "getStockBars" /\ symbols = <<>>) )
       => /\ pc = "done"
          /\ calls = <<>>
          /\ inFlight = 0
          /\ thrown = <<CredentialsError>>

\* the key is set and the secret is the empty string: the request has failed
C3_Witness ==
    /\ env.ALPACA_API_KEY = "key"
    /\ env.ALPACA_SECRET_KEY = ""
    /\ pc = "done"
    /\ thrown = <<CredentialsError>>
    /\ calls = <<>>

\* C4: in getStockBars a failure of any request of any page of any batch ends
\* the invocation: no request is issued after it, and the error envelope
\* returned holds the prefixed message of the failure and nothing of the bars
\* accumulated from the pages before.
C4_BarsAbortNoPartial ==
    (tool = "getStockBars" /\ thrown # <<>>) =>
        /\ pc = "done"
        /\ inFlight = 0
        /\ Len(thrown) = 1
        /\ Len(calls) <= Len(pages) + 1
        /\ outcome = "returned"
        /\ IsError(envelope)
        /\ envelope.content[1].text = [message |-> "Error fetching stock bars: " \o thrown[1]]

\* a request failed after bars had been accumulated and with a batch still to go
C4_Witness ==
    /\ tool = "getStockBars"
    /\ thrown # <<>>
    /\ Len(pages) >= 1
    /\ DOMAIN result # {}
    /\ batchIdx < Len(batches)
    /\ IsError(envelope)

\* C5: in getNews the first request carries exactly sort=desc, start, end,
\* symbols (comma-joined) and include_content=true; every later request
\* carries page_token and nothing else.
C5_NewsRequestParams ==
    tool = "getNews" =>
        \A i \in 1..Len(calls) :
            IF i = 1
            THEN calls[i].params =
                    [sort |-> "desc", start |-> StartArg, end |-> EndArg,
                     symbols |-> Join(symbols), include_content |-> "true"]
            ELSE /\ DOMAIN calls[i].params = {"page_token"}
                 /\ calls[i].params.page_token \in ContinuationTokens

\* getNews has issued a third request, for two symbols
C5_Witness ==
    /\ tool = "getNews"
    /\ Len(calls) = 3
    /\ symbols = <<"A", "B">>
    /\ calls[1].params.symbols = "A,B"

RECURSIVE TradableOnly(_)
\* the sub-sequence of the records whose tradable attribute is true
TradableOnly(items) ==
    IF items = <<>> THEN <<>>
    ELSE IF Head(items).tradable = "true"
         THEN <<Head(items)>> \o TradableOnly(Tail(items))
         ELSE TradableOnly(Tail(items))

\* C6: the success payload of getAssets is the sub-sequence, in upstream
\* order, of the records upstream returned whose tradable attribute is true
\* (upstream gives tradable as a boolean, or leaves it out).
C6_AssetsTradableOnly ==
    (tool = "getAssets" /\ Succeeded) =>
        /\ Len(pages) = 1
        /\ Payload = TradableOnly(pages[1].items)

\* upstream returned a record without the attribute before a tradable one
C6_Witness ==
    /\ tool = "getAssets"
    /\ Succeeded
    /\ Len(pages[1].items) = 2
    /\ pages[1].items[1].tradable = "undefined"
    /\ pages[1].items[2].tradable = "true"
    /\ Len(Payload) = 1

\* C7: when every request of a getNews invocation succeeds, the payload is the
\* concatenation of the news arrays of the pages in the order they arrived.
C7_NewsConcatenation ==
    (tool = "getNews" /\ Succeeded) =>
        Payload = Concat([i \in 1..Len(pages) |-> pages[i].news])

\* two pages arrived whose arrays differ and share an item
C7_Witness ==
    /\ tool = "getNews"
    /\ Succeeded
    /\ Len(pages) >= 2
    /\ pages[1].news = <<"n2", "n1">>
    /\ pages[2].news = <<"n1">>

\* the symbols that are keys of the bars mapping of some page
BarsKeys(ps) == UNION {DOMAIN ps[i].bars : i \in 1..Len(ps)}

\* the last page that carries the key
LastPageWith(ps, k) ==
    CHOOSE i \in 1..Len(ps) :
        /\ k \in DOMAIN ps[i].bars
        /\ \A j \in (i + 1)..Len(ps) : k \notin DOMAIN ps[j].bars

\* every key of every page, with the value of the last page that carries it
LastWins(ps) == [k \in BarsKeys(ps) |-> ps[LastPageWith(ps, k)].bars[k]]

\* C8: when every request of a getStockBars invocation succeeds, the keys of
\* the returned bars mapping are the union of the keys of all pages of all
\* batches, and the value of a key is that of the last page that carried it.
C8_BarsLastPageWins ==
    (tool = "getStockBars" /\ Succeeded) =>
        /\ DOMAIN Payload = {"bars"}
        /\ DOMAIN Payload.bars = BarsKeys(pages)
        /\ \A k \in BarsKeys(pages) : Payload.bars[k] = pages[LastPageWith(pages, k)].bars[k]

\* a symbol was a key of two pages, another of one page only
C8_Witness ==
    /\ tool = "getStockBars"
    /\ Succeeded
    /\ Len(pages) >= 2
    /\ "A" \in DOMAIN pages[1].bars /\ "A" \in DOMAIN pages[2].bars
    /\ "B" \in DOMAIN pages[1].bars /\ "B" \notin DOMAIN pages[2].bars

\* the number of the first i pages that ended a pagination
Ended(i) == Cardinality({j \in 1..i : ~Truthy(pages[j].next_page_token)})

\* C9: in getStockBars (per batch) and getNews, after a page is received a
\* further request of the same pagination is issued exactly when the page
\* carried a continuation token, it carries that token as page_token, no page
\* is requested twice, and the first request of the invocation and of every
\* batch carries no page_token.
C9_TokenDrivesPagination ==
    tool \in {"getStockBars", "getNews"} =>
        /\ Len(calls) <= Len(pages) + 1
        /\ \A i \in 1..Len(calls) :
             IF i > 1 /\ pages[i - 1].shape = "object" /\ Truthy(pages[i - 1].next_page_token)
             THEN /\ "page_token" \in DOMAIN calls[i].params
                  /\ calls[i].params.page_token = pages[i - 1].next_page_token
             ELSE "page_token" \notin DOMAIN calls[i].params
        /\ \A i \in 1..Len(pages) :
             pages[i].shape = "object" =>
                IF Truthy(pages[i].next_page_token)
                THEN Len(calls) > i \/ thrown = <<CredentialsError>>
                ELSE IF tool = "getNews"
                THEN Len(calls) = i
                ELSE (Len(calls) > i \/ thrown = <<CredentialsError>>)
                        <=> Ended(i) < Len(batches)

\* the first batch took two pages, and the second batch has been requested
C9_Witness ==
    /\ tool = "getStockBars"
    /\ Len(calls) >= 3
    /\ Len(pages) >= 2
    /\ Truthy(pages[1].next_page_token)
    /\ ~Truthy(pages[2].next_page_token)
    /\ calls[2].params.page_token = pages[1].next_page_token
    /\ "page_token" \notin DOMAIN calls[3].params

\* C10: within one invocation at most one request is in flight; a request is
\* issued only after the response of the one before has been received and
\* merged; getStockBars takes the batches in input order, one after the other.
C10_OneRequestAtATime ==
    /\ inFlight \in {0, 1}
    /\ inFlight = 1 <=> pc = "awaiting"
    /\ pc = "awaiting" =>
        /\ Len(calls) = Len(pages) + 1
        /\ tool = "getStockBars" => result = LastWins(pages)
        /\ tool = "getNews" => result = Concat([i \in 1..Len(pages) |-> pages[i].news])
    /\ tool = "getStockBars" =>
        \A i \in 1..Len(calls) :
            /\ i <= Len(pages) + 1
            /\ Ended(i - 1) + 1 <= Len(getBatches(symbols, BatchSize))
            /\ calls[i].params.symbols = Join(getBatches(symbols, BatchSize)[Ended(i - 1) + 1])

\* the second batch is being fetched after a first batch of two pages
C10_Witness ==
    /\ tool = "getStockBars"
    /\ pc = "awaiting"
    /\ batchIdx = 2
    /\ Len(pages) = 2
    /\ inFlight = 1
    /\ calls[3].params.symbols # calls[1].params.symbols

\* the symbols of different batches are disjoint
BatchesDisjoint ==
    \A i \in 1..Len(batches) : \A j \in (i + 1)..Len(batches) :
        Range(batches[i]) \cap Range(batches[j]) = {}

\* a key written by a page of one batch is a key of a page of a later batch
CrossBatchOverwrite ==
    \E i \in 1..Len(pages) : \E j \in (i + 1)..Len(pages) :
        /\ pages[i].shape = "object" /\ pages[j].shape = "object"
        /\ Ended(i - 1) # Ended(j - 1)
        /\ DOMAIN pages[i].bars \cap DOMAIN pages[j].bars # {}

NoDuplicates(s) == \A i \in 1..Len(s) : \A j \in (i + 1)..Len(s) : s[i] # s[j]

\* C11 as stated: for every symbol list the symbols of different batches of
\* getStockBars are disjoint, and no key written by a page of one batch is
\* overwritten by a page of another batch.
C11_AnyListDisjoint ==
    tool = "getStockBars" => BatchesDisjoint /\ ~CrossBatchOverwrite

\* C11 as amended: for every symbol list without a repeated symbol, with
\* upstream answering with bars of the symbols asked for only, the symbols of
\* different batches are disjoint and no key written by a page of one batch
\* is overwritten by a page of another batch.
C11_DistinctSymbolsDisjoint ==
    (tool = "getStockBars" /\ NoDuplicates(symbols)) =>
        BatchesDisjoint /\ ~CrossBatchOverwrite

\* distinct symbols in two batches, each batch answered with bars of its symbols
C11_Witness ==
    /\ tool = "getStockBars"
    /\ NoDuplicates(symbols)
    /\ Len(batches) = 2
    /\ Succeeded
    /\ \E i \in 1..Len(pages) : \E j \in (i + 1)..Len(pages) :
         /\ Ended(i - 1) # Ended(j - 1)
         /\ DOMAIN pages[i].bars # {}
         /\ DOMAIN pages[j].bars # {}

\* the invocation has ended with a success envelope or with an error envelope
Terminal ==
    /\ pc = "done"
    /\ outcome = "returned"
    /\ \/ thrown = <<>> /\ ~IsError(envelope)
       \/ thrown # <<>> /\ IsError(envelope)

\* C12: with every request completing and upstream ending every pagination,
\* an invocation of getStockBars or getNews reaches a terminal state (a success
\* envelope, or an error envelope), issues no request after it, and has then
\* issued as many requests as it received pages, plus one if a request failed.
C12_PaginationTerminates ==
    /\ (tool \in {"getStockBars", "getNews"}) ~> Terminal
    /\ [][pc = "done" => pc' = "done" /\ calls' = calls]_vars
    /\ [](tool \in {"getStockBars", "getNews"} /\ pc = "done" =>
            /\ Terminal
            /\ inFlight = 0
            /\ Len(calls) \in {Len(pages), Len(pages) + 1}
            /\ Len(calls) = Len(pages) + 1 => thrown # <<>>)

\* getNews received three pages and returned; getStockBars is covered by C4's
\* and C9's witnesses
C12_Witness ==
    /\ tool = "getNews"
    /\ Terminal
    /\ Len(pages) = 3
    /\ Len(calls) = 3
    /\ thrown = <<>>

\* both credentials are present and non-empty
CredentialsPresent == env.ALPACA_API_KEY \notin {Undefined, ""} /\ env.ALPACA_SECRET_KEY \notin {Undefined, ""}

\* C13: the credentials are read at every request.  A fetch is issued only
\* with both credentials present and carries their values of that moment in
\* its headers; when a page with a continuation token arrives after a
\* credential was removed, the request for the next page throws the
\* credentials error, no fetch is issued, and the error envelope is returned.
C13_CredentialsReadPerRequest ==
    [][ /\ calls' # calls =>
            /\ CredentialsPresent
            /\ calls' = Append(calls,
                    [calls'[Len(calls')] EXCEPT
                        !.headers = [APCA_API_KEY_ID     |-> env.ALPACA_API_KEY,
                                     APCA_API_SECRET_KEY |-> env.ALPACA_SECRET_KEY]])
        /\ ( /\ tool \in {"getStockBars", "getNews"}
             /\ ~CredentialsPresent
             /\ Len(pages') = Len(pages) + 1
             /\ pages'[Len(pages')].shape = "object"
             /\ Truthy(pages'[Len(pages')].next_page_token) )
           => /\ calls' = calls
              /\ thrown' = <<CredentialsError>>
              /\ pc' = "done"
              /\ outcome' = "returned"
              /\ IsError(envelope')
              /\ envelope'.content[1].text = [message |-> ErrorPrefix(tool) \o CredentialsError]
      ]_vars

\* the second page was fetched with a new key, then the secret was removed and
\* the request for the third page failed
C13_Witness ==
    /\ Len(calls) = 2
    /\ Len(pages) = 2
    /\ calls[1].headers.APCA_API_KEY_ID = "key"
    /\ calls[2].headers.APCA_API_KEY_ID = "key2"
    /\ env.ALPACA_SECRET_KEY = Undefined
    /\ Truthy(pages[2].next_page_token)
    /\ thrown = <<CredentialsError>>
    /\ IsError(envelope)

\* C14: with an empty symbols list, getStockBars issues no request and returns
\* a success envelope wrapping { bars: {} }, whatever the credentials and
\* whatever upstream would answer; getNews with an empty symbols list still
\* calls request: with the credentials configured its first fetch carries
\* symbols = "", and with a credential missing it returns the error envelope of
\* the credentials error.
C14_EmptySymbols ==
    /\ (tool = "getStockBars" /\ symbols = <<>> /\ pc # "idle") =>
           /\ pc = "done"
           /\ outcome = "returned"
           /\ calls = <<>>
           /\ pages = <<>>
           /\ thrown = <<>>
           /\ envelope = SuccessEnvelope([bars |-> EmptyMap])
           /\ ~IsError(envelope)
    /\ (tool = "getNews" /\ symbols = <<>> /\ pc # "idle") =>
           IF CredentialsConfigured(env)
           THEN /\ Len(calls) >= 1
                /\ calls[1].params.symbols = ""
                /\ calls[1].path = "/v1beta1/news"
           ELSE /\ pc = "done"
                /\ outcome = "returned"
                /\ calls = <<>>
                /\ thrown = <<CredentialsError>>
                /\ IsError(envelope)
                /\ envelope.content[1].text = [message |-> ErrorPrefix(tool) \o CredentialsError]

\* getStockBars has returned its empty success envelope for an empty symbols
\* list with a credential missing
C14_Witness ==
    /\ tool = "getStockBars"
    /\ symbols = <<>>
    /\ ~CredentialsConfigured(env)
    /\ pc = "done"
    /\ calls = <<>>
    /\ Payload = [bars |-> EmptyMap]
    /\ ~IsError(envelope)

====
